---- MODULE Spec2Model ----
(***************************************************************************)
(* NSGA-II style ranking of Kochi Metro trainsets.                         *)
(*                                                                         *)
(*   backend_nsga_service.py  the Flask service (POST /rank)               *)
(*   nsga_train_ranking.py    the command-line ranking                     *)
(*                                                                         *)
(* Conventions of the model                                                *)
(*  - A Python list is a sequence; the Python index i is the model index   *)
(*    i + 1 (sequences start at 1).                                        *)
(*  - A Python float is an exact rational <<num, den>> in lowest terms     *)
(*    with den > 0; math.inf is <<1, 0>> and -math.inf is <<-1, 0>>.       *)
(*  - A Python str is a sequence of one-character strings, so that the     *)
(*    substring tests of the code are computed and not assumed.            *)
(***************************************************************************)
EXTENDS Integers, Sequences, FiniteSets, TLC

VARIABLES
    entry,                \* the entry point of this run: nsga_order, rank_endpoint or main
    pc,                   \* the position of the run
    rows,                 \* rank_endpoint: payload["rows"]
    weights,              \* rank_endpoint: payload.get("weights", {})
    raw_objs,             \* rank_endpoint: raw_objs
    extras_list,          \* rank_endpoint: extras_list
    penalties,            \* rank_endpoint: penalties
    alerts_list,          \* rank_endpoint: alerts_list
    weighted_objs,        \* nsga_order: argument weighted_objs
    constraint_penalties, \* nsga_order: argument constraint_penalties
    fronts,               \* nsga_order, nsga_rank: fronts
    order,                \* nsga_order: the returned list of (index, -crowding, rank)
    category,             \* rank_endpoint: category, one per pass of the response loop
    results,              \* rank_endpoint: results
    trains,               \* main: trains
    computed,             \* main: computed, the list of TrainComputed (pop)
    ranked,               \* main: ranked, as indices of computed
    categorized,          \* main: categorized, the list of (item, category)
    nds                   \* the sort that is running: its locals S, n_dom, current, fronts

vars == <<entry, pc, rows, weights, raw_objs, extras_list, penalties, alerts_list,
          weighted_objs, constraint_penalties, fronts, order, category, results,
          trains, computed, ranked, categorized, nds>>

serviceVars == <<rows, weights, raw_objs, extras_list, penalties, alerts_list,
                 category, results>>
orderVars == <<weighted_objs, constraint_penalties, fronts, order>>
cliVars == <<trains, computed, ranked, categorized>>

\* ------------------------------------------------------------------ bounds

\* longest population given to nsga_order, the penalties any
MaxPop == 3
\* longest population given to nsga_order when every candidate is feasible
MaxFeasiblePop == 4
\* longest population given to nsga_order whose vectors have a third dimension
MaxDegeneratePop == 3
\* longest list of rows given to rank_endpoint
MaxRows == 2
\* longest list of trainsets given to the command line
MaxTrains == 3
\* most candidates apply_weights is given
MaxWeighted == 3
\* most candidates a non-dominated sort is given when its loop is followed round by round
MaxSorted == 3

\* ------------------------------------------------------- sequence helpers

Range(s) == {s[i] : i \in 1..Len(s)}

\* [i for i in range(n) if i in S]: the members of S among 1..n, ascending, the
\* order in which a list comprehension over range(n) keeps them
RECURSIVE Ascending(_, _)
Ascending(n, S) ==
    IF n = 0 THEN <<>>
    ELSE IF n \in S THEN Append(Ascending(n - 1, S), n) ELSE Ascending(n - 1, S)

\* ------------------------------------------------------------- arithmetic

RECURSIVE Gcd(_, _)
Gcd(a, b) == IF b = 0 THEN a ELSE Gcd(b, a % b)

Abs(x) == IF x < 0 THEN -x ELSE x

\* the float num/den (den > 0), in lowest terms
Rat(num, den) ==
    LET g == Gcd(Abs(num), den) IN <<num \div g, den \div g>>

\* the float of an int
Flt(i) == <<i, 1>>

\* math.inf
Inf == <<1, 0>>

IsInf(a) == a[2] = 0

\* a < b on floats (no NaN arises in the code that is modelled)
Lt(a, b) ==
    IF IsInf(a) /\ IsInf(b) THEN a[1] < b[1]
    ELSE a[1] * b[2] < b[1] * a[2]

Le(a, b) == a = b \/ Lt(a, b)

\* a + b on floats; inf + x = inf
Add(a, b) ==
    IF IsInf(a) THEN a
    ELSE IF IsInf(b) THEN b
    ELSE Rat(a[1] * b[2] + b[1] * a[2], a[2] * b[2])

\* a - b on finite floats
Sub(a, b) == Rat(a[1] * b[2] - b[1] * a[2], a[2] * b[2])

\* a / b on finite floats, b > 0
Div(a, b) == Rat(a[1] * b[2], a[2] * b[1])

\* a * b on finite floats
Mul(a, b) == Rat(a[1] * b[1], a[2] * b[2])

\* -a on floats
Neg(a) == <<-a[1], a[2]>>

\* sorted(xs, key=...) for float keys, key[x] the key of x: Python's sort is stable
RECURSIVE InsertByKey(_, _, _)
InsertByKey(sorted, x, key) ==
    IF sorted = <<>> THEN <<x>>
    ELSE LET last == sorted[Len(sorted)] IN
         IF Lt(key[x], key[last])
         THEN Append(InsertByKey(SubSeq(sorted, 1, Len(sorted) - 1), x, key), last)
         ELSE Append(sorted, x)

RECURSIVE SortedByKey(_, _)
SortedByKey(xs, key) ==
    IF xs = <<>> THEN <<>>
    ELSE InsertByKey(SortedByKey(SubSeq(xs, 1, Len(xs) - 1), key), xs[Len(xs)], key)

\* ---------------------------------------------- service: NSGA-II ranking

\* a comparison of the sums of the components in place of the Pareto dominance
_dominates_weighted_sum(a, b) ==
    LET ks == 1..(IF Len(a) < Len(b) THEN Len(a) ELSE Len(b))
        total(v) == LET RECURSIVE upto(_)
                        upto(k) == IF k = 0 THEN Flt(0) ELSE Add(upto(k - 1), v[k])
                    IN  upto(IF Len(a) < Len(b) THEN Len(a) ELSE Len(b))
    IN  ks # {} /\ Lt(total(a), total(b))

\* _dominates(a, b): zip(a, b) pairs the components up to the shorter length
_dominates(a, b) ==
    LET ks == 1..(IF Len(a) < Len(b) THEN Len(a) ELSE Len(b))
        not_worse == \A k \in ks : Le(a[k], b[k])
        strictly_better == \E k \in ks : Lt(a[k], b[k])
    IN  not_worse /\ strictly_better

\* the first loop nest of _non_dominated_sort: S[p], in the order q is visited
_nds_S(pop) ==
    [p \in 1..Len(pop) |->
        Ascending(Len(pop), {q \in 1..Len(pop) : q # p /\ _dominates(pop[p], pop[q])})]

\* n_dom[p] with "no worse everywhere" in the place of _dominates: a candidate with
\* the vector of p counts as one that dominates p
_nds_n_dom_nonstrict(pop) ==
    [p \in 1..Len(pop) |->
        Cardinality({q \in 1..Len(pop) :
            q # p /\ ~_dominates(pop[p], pop[q])
                  /\ \A k \in 1..Len(pop[p]) : Le(pop[q][k], pop[p][k])})]

\* the first loop nest of _non_dominated_sort: n_dom[p]
_nds_n_dom(pop) ==
    [p \in 1..Len(pop) |->
        Cardinality({q \in 1..Len(pop) :
            q # p /\ ~_dominates(pop[p], pop[q]) /\ _dominates(pop[q], pop[p])})]

\* the loop "for q in S[p]" with the test "if n_dom[q] == 0" left out: q joins the
\* next front as soon as one of the candidates that dominate it is taken
RECURSIVE _nds_for_q_unchecked(_, _, _)
_nds_for_q_unchecked(qs, n_dom, next_front) ==
    IF qs = <<>> THEN [n_dom |-> n_dom, next_front |-> next_front]
    ELSE LET q == Head(qs)
             nd == [n_dom EXCEPT ![q] = @ - 1]
         IN  _nds_for_q_unchecked(Tail(qs), nd, Append(next_front, q))

\* the loop "for q in S[p]" of _non_dominated_sort over the list qs
RECURSIVE _nds_for_q(_, _, _)
_nds_for_q(qs, n_dom, next_front) ==
    IF qs = <<>> THEN [n_dom |-> n_dom, next_front |-> next_front]
    ELSE LET q == Head(qs)
             nd == [n_dom EXCEPT ![q] = @ - 1]
         IN  _nds_for_q(Tail(qs), nd,
                        IF nd[q] = 0 THEN Append(next_front, q) ELSE next_front)

\* the loop "for p in current" of _non_dominated_sort over the list ps
RECURSIVE _nds_for_p(_, _, _, _)
_nds_for_p(ps, S, n_dom, next_front) ==
    IF ps = <<>> THEN [n_dom |-> n_dom, next_front |-> next_front]
    ELSE LET r == _nds_for_q(S[Head(ps)], n_dom, next_front)
         IN  _nds_for_p(Tail(ps), S, r.n_dom, r.next_front)

\* the loop "while current" of _non_dominated_sort
RECURSIVE _nds_while(_, _, _, _)
_nds_while(current, S, n_dom, frs) ==
    IF current = <<>> THEN frs
    ELSE LET r == _nds_for_p(current, S, n_dom, <<>>)
         IN  _nds_while(r.next_front, S, r.n_dom,
                        IF r.next_front # <<>> THEN Append(frs, r.next_front) ELSE frs)

\* _non_dominated_sort(pop): the list of fronts, each a list of indices of pop
_non_dominated_sort(pop) ==
    LET S == _nds_S(pop)
        n_dom == _nds_n_dom(pop)
        current == Ascending(Len(pop), {i \in 1..Len(pop) : n_dom[i] = 0})
    IN  _nds_while(current, S, n_dom, IF current # <<>> THEN <<current>> ELSE <<>>)

\* the loop "for j" with "dist[...] = ..." in the place of "dist[...] += ...": the
\* share of one dimension replaces what the earlier dimensions have set
RECURSIVE _cd_for_j_assign(_, _, _, _, _, _)
_cd_for_j_assign(j, sorted_idx, pop, k, span, dist) ==
    IF j > Len(sorted_idx) - 1 THEN dist
    ELSE LET prev_v == pop[sorted_idx[j - 1]][k]
             next_v == pop[sorted_idx[j + 1]][k]
             d == [dist EXCEPT ![sorted_idx[j]] = Div(Sub(next_v, prev_v), span)]
         IN  _cd_for_j_assign(j + 1, sorted_idx, pop, k, span, d)

\* the loop "for j in range(1, len(sorted_idx) - 1)" of _crowding_distance
RECURSIVE _cd_for_j(_, _, _, _, _, _)
_cd_for_j(j, sorted_idx, pop, k, span, dist) ==
    IF j > Len(sorted_idx) - 1 THEN dist
    ELSE LET prev_v == pop[sorted_idx[j - 1]][k]
             next_v == pop[sorted_idx[j + 1]][k]
             d == [dist EXCEPT ![sorted_idx[j]] = Add(@, Div(Sub(next_v, prev_v), span))]
         IN  _cd_for_j(j + 1, sorted_idx, pop, k, span, d)

\* the loop "for k in range(m)" of _crowding_distance, from dimension k on
RECURSIVE _cd_for_k(_, _, _, _, _)
_cd_for_k(k, m, front, pop, dist) ==
    IF k > m THEN dist
    ELSE LET sorted_idx == SortedByKey(front, [i \in Range(front) |-> pop[i][k]])
             min_v == pop[sorted_idx[1]][k]
             max_v == pop[sorted_idx[Len(sorted_idx)]][k]
             span == Sub(max_v, min_v)
             d1 == [dist EXCEPT ![sorted_idx[1]] = Inf]
             d2 == [d1 EXCEPT ![sorted_idx[Len(sorted_idx)]] = Inf]
         IN  IF span = Flt(0) THEN _cd_for_k(k + 1, m, front, pop, d2)
             ELSE _cd_for_k(k + 1, m, front, pop, _cd_for_j(2, sorted_idx, pop, k, span, d2))

\* _crowding_distance(front, pop): the dict index -> distance ({} is the empty function)
_crowding_distance(front, pop) ==
    IF front = <<>> THEN <<>>
    ELSE _cd_for_k(1, Len(pop[1]), front, pop, [i \in Range(front) |-> Flt(0)])

\* NonDominatedSorting(method="fast_non_dominated_sort").do(objs) of pymoo, taken to
\* be the fast non-dominated sort with the member order of the built-in one
NonDominatedSorting(objs) == _non_dominated_sort(objs)

\* the fronts of a group left with the indices local to the group
MapFronts_local(frs, idx) == frs

\* [[idx[j] for j in f] for f in frs]
MapFronts(frs, idx) ==
    [a \in 1..Len(frs) |-> [b \in 1..Len(frs[a]) |-> idx[frs[a][b]]]]

\* [xs[i] for i in idx]
Pick(xs, idx) == [a \in 1..Len(idx) |-> xs[idx[a]]]

\* the fronts of one non-dominated sort over all candidates, the penalties ignored
nsga_fronts_unsplit(w, pen, have_pymoo) == _non_dominated_sort(w)

\* nsga_order, lines 277-305: the fronts, in the branch _HAVE_PYMOO selects
nsga_fronts(w, pen, have_pymoo) ==
    LET feas_idx == Ascending(Len(pen), {i \in 1..Len(pen) : Le(pen[i], Flt(0))})
        infeas_idx == Ascending(Len(pen), {i \in 1..Len(pen) : Lt(Flt(0), pen[i])})
    IN  IF have_pymoo
        THEN LET grouped == SortedByKey(infeas_idx, pen)
                 f1 == IF feas_idx # <<>>
                       THEN MapFronts(NonDominatedSorting(Pick(w, feas_idx)), feas_idx)
                       ELSE <<>>
             IN  IF infeas_idx # <<>>
                 THEN f1 \o MapFronts(NonDominatedSorting(Pick(w, grouped)), grouped)
                 ELSE f1
        ELSE LET f1 == IF feas_idx # <<>>
                       THEN MapFronts(_non_dominated_sort(Pick(w, feas_idx)), feas_idx)
                       ELSE <<>>
             IN  IF infeas_idx # <<>>
                 THEN f1 \o MapFronts(_non_dominated_sort(Pick(w, infeas_idx)), infeas_idx)
                 ELSE f1

\* the loop "for f in fronts" of nsga_order: the list order before it is sorted
RECURSIVE nsga_for_f(_, _, _, _)
nsga_for_f(rank_num, frs, w, acc) ==
    IF rank_num > Len(frs) THEN acc
    ELSE LET f == frs[rank_num]
             d == _crowding_distance(f, w)
         IN  nsga_for_f(rank_num + 1, frs, w,
                        acc \o [a \in 1..Len(f) |-> <<f[a], Neg(d[f[a]]), rank_num>>])

\* t1 < t2 for the sort keys (t[2], t[1]) of nsga_order: tuples compare in order
OrderKeyLt(t1, t2) == t1[3] < t2[3] \/ (t1[3] = t2[3] /\ Lt(t1[2], t2[2]))

\* order.sort(key=lambda t: (t[2], t[1])): stable
RECURSIVE InsertOrder(_, _)
InsertOrder(sorted, t) ==
    IF sorted = <<>> THEN <<t>>
    ELSE LET last == sorted[Len(sorted)] IN
         IF OrderKeyLt(t, last)
         THEN Append(InsertOrder(SubSeq(sorted, 1, Len(sorted) - 1), t), last)
         ELSE Append(sorted, t)

RECURSIVE SortOrder(_)
SortOrder(xs) ==
    IF xs = <<>> THEN <<>>
    ELSE InsertOrder(SortOrder(SubSeq(xs, 1, Len(xs) - 1)), xs[Len(xs)])

\* nsga_order without its final order.sort(...)
nsga_unsorted(frs, w) == nsga_for_f(1, frs, w, <<>>)

\* nsga_order, lines 306-317: ranks, crowding distances and the final sort
nsga_sorted(frs, w) == SortOrder(nsga_for_f(1, frs, w, <<>>))

\* nsga_order(weighted_objs, constraint_penalties) in the branch have_pymoo
nsga_order(w, pen, have_pymoo) == nsga_sorted(nsga_fronts(w, pen, have_pymoo), w)

\* ------------------------------------------------------------------ text

\* None, as the value of a text or number field (distinct from every str and float)
None == <<"<None>">>

\* the str '' 
Empty == <<>>

UpperCase == <<"A","B","C","D","E","F","G","H","I","J","K","L","M",
               "N","O","P","Q","R","S","T","U","V","W","X","Y","Z">>
LowerCase == <<"a","b","c","d","e","f","g","h","i","j","k","l","m",
               "n","o","p","q","r","s","t","u","v","w","x","y","z">>

\* the lower-case letter of every upper-case letter
LowerOf ==
    [c \in Range(UpperCase) |->
        LowerCase[CHOOSE a \in 1..Len(UpperCase) : UpperCase[a] = c]]

\* str.lower()
lower(s) == [i \in 1..Len(s) |-> IF s[i] \in DOMAIN LowerOf THEN LowerOf[s[i]] ELSE s[i]]

\* str.strip(), for the blank as the only whitespace
RECURSIVE strip(_)
strip(s) ==
    IF s = <<>> THEN s
    ELSE IF Head(s) = " " THEN strip(Tail(s))
    ELSE IF s[Len(s)] = " " THEN strip(SubSeq(s, 1, Len(s) - 1))
    ELSE s

\* key in s, for two str: s has key as a substring
In(key, s) ==
    \E i \in 0..(Len(s) - Len(key)) : SubSeq(s, i + 1, i + Len(key)) = key

\* d.get(key) for a dict d: None when the key is absent
Get(d, key) == IF key \in DOMAIN d THEN d[key] ELSE None

\* _norm_text(s) = str(s or '').strip().lower()
_norm_text(s) == IF s = None THEN Empty ELSE lower(strip(s))

s_valid == <<"v", "a", "l", "i", "d">>
s_expired == <<"e", "x", "p", "i", "r", "e", "d">>
s_invalid == <<"i", "n", "v", "a", "l", "i", "d">>
s_revoked == <<"r", "e", "v", "o", "k", "e", "d">>
s_conditional == <<"c", "o", "n", "d", "i", "t", "i", "o", "n", "a", "l">>
s_critical == <<"c", "r", "i", "t", "i", "c", "a", "l">>
s_major == <<"m", "a", "j", "o", "r">>
s_open == <<"o", "p", "e", "n">>
s_minor == <<"m", "i", "n", "o", "r">>
s_pending == <<"p", "e", "n", "d", "i", "n", "g">>
s_closed == <<"c", "l", "o", "s", "e", "d">>
s_high == <<"h", "i", "g", "h">>
s_medium == <<"m", "e", "d", "i", "u", "m">>
s_low == <<"l", "o", "w">>
s_complete == <<"c", "o", "m", "p", "l", "e", "t", "e">>
s_clean == <<"c", "l", "e", "a", "n">>
s_partial == <<"p", "a", "r", "t", "i", "a", "l">>
s_inprogress == <<"i", "n", "p", "r", "o", "g", "r", "e", "s", "s">>
s_missing == <<"m", "i", "s", "s", "i", "n", "g">>
s_Valid == <<"V", "a", "l", "i", "d">>
s_Expired == <<"E", "x", "p", "i", "r", "e", "d">>
s_Conditional == <<"C", "o", "n", "d", "i", "t", "i", "o", "n", "a", "l">>
s_Open == <<"O", "p", "e", "n">>
s_Minor == <<"M", "i", "n", "o", "r">>
s_Closed == <<"C", "l", "o", "s", "e", "d">>
s_High == <<"H", "i", "g", "h">>
s_Medium == <<"M", "e", "d", "i", "u", "m">>
s_Low == <<"L", "o", "w">>
s_Complete == <<"C", "o", "m", "p", "l", "e", "t", "e">>
s_Partial == <<"P", "a", "r", "t", "i", "a", "l">>
s_Pending == <<"P", "e", "n", "d", "i", "n", "g">>

\* ------------------------------------------------ service: mapping helpers

\* any(k in s for k in keys)
AnyIn(keys, s) == \E k \in keys : In(k, s)

RECURSIVE MinF(_)
MinF(vals) ==
    IF Len(vals) = 1 THEN vals[1]
    ELSE LET m == MinF(Tail(vals)) IN IF Lt(m, vals[1]) THEN m ELSE vals[1]

RECURSIVE MaxF(_)
MaxF(vals) ==
    IF Len(vals) = 1 THEN vals[1]
    ELSE LET m == MaxF(Tail(vals)) IN IF Lt(vals[1], m) THEN m ELSE vals[1]

RECURSIVE SumF(_)
SumF(vals) == IF vals = <<>> THEN Flt(0) ELSE Add(vals[1], SumF(Tail(vals)))

\* _norm without the division by the span: v - vmin
_norm_unscaled(vals) ==
    IF vals = <<>> THEN vals
    ELSE LET vmin == MinF(vals)
             vmax == MaxF(vals)
         IN  IF Sub(vmax, vmin) = Flt(0) THEN [i \in 1..Len(vals) |-> Flt(0)]
             ELSE [i \in 1..Len(vals) |-> Sub(vals[i], vmin)]

\* _norm(vals)
_norm(vals) ==
    IF vals = <<>> THEN vals
    ELSE LET vmin == MinF(vals)
             vmax == MaxF(vals)
         IN  IF Sub(vmax, vmin) = Flt(0) THEN [i \in 1..Len(vals) |-> Flt(0)]
             ELSE [i \in 1..Len(vals) |-> Div(Sub(vals[i], vmin), Sub(vmax, vmin))]

\* _normalize_statuses(row)
_normalize_statuses(row) ==
    LET f == _norm_text(Get(row, "fitness"))
        j == _norm_text(Get(row, "job_cards"))
        b == _norm_text(Get(row, "branding"))
        c == _norm_text(Get(row, "cleaning"))
    IN  [fitness |-> IF In(s_valid, f) THEN s_Valid
                     ELSE IF AnyIn({s_expired, s_invalid, s_revoked}, f) THEN s_Expired
                     ELSE s_Conditional,
         job_cards |-> IF AnyIn({s_critical, s_major, s_open}, j) THEN s_Open
                       ELSE IF AnyIn({s_minor, s_pending}, j) THEN s_Minor
                       ELSE s_Closed,
         branding |-> IF b = s_high THEN s_High
                      ELSE IF b = s_medium THEN s_Medium
                      ELSE s_Low,
         cleaning |-> IF AnyIn({s_complete, s_clean}, c) THEN s_Complete
                      ELSE IF AnyIn({s_partial, s_inprogress}, c) THEN s_Partial
                      ELSE s_Pending,
         stabling |-> IF Get(row, "stabling") = None THEN Empty ELSE Get(row, "stabling")]

\* the values of a field that holds a number in one row and a text in another: a
\* JSON number, a JSON string, and null (None)
JsonNumber(x) == [json |-> "number", value |-> x]
JsonString(t) == [json |-> "string", value |-> t]
JsonNull == [json |-> "null"]

\* d.get(key) for such a field: None when the key is absent
GetJson(d, key) == IF key \in DOMAIN d THEN d[key] ELSE JsonNull

\* the exception float() raises for a text that is no number
ValueError == <<"ValueError">>

Digits == <<"0", "1", "2", "3", "4", "5", "6", "7", "8", "9">>

\* the number a text of decimal digits writes
RECURSIVE DigitsValue(_)
DigitsValue(t) ==
    IF t = <<>> THEN 0
    ELSE 10 * DigitsValue(SubSeq(t, 1, Len(t) - 1))
         + (CHOOSE d \in 0..9 : Digits[d + 1] = t[Len(t)])

\* float(t) for a str t: blanks around the number are skipped; a text of decimal
\* digits is its number, a text with any other character (the texts of the model
\* have no sign, point or exponent) raises ValueError
float_of_str(t) ==
    LET body == strip(t)
    IN  IF body # <<>> /\ \A i \in 1..Len(body) : body[i] \in Range(Digits)
        THEN Flt(DigitsValue(body))
        ELSE ValueError

\* float(x or 0.0): None, 0 and '' are falsy
FloatOrZero(x) ==
    IF x = JsonNull THEN Flt(0)
    ELSE IF x.json = "number" THEN x.value
    ELSE IF x.value = Empty THEN Flt(0)
    ELSE float_of_str(x.value)

\* the floats 0.5 and 1.0 and the penalty 10.0 of map_row_to_objectives
Half == Rat(1, 2)
One == Flt(1)
PenaltyInvalid == Flt(10)

\* map_row_to_objectives(row, fleet_avg_mileage): objectives, extras, penalty, alerts
map_row_to_objectives(row, fleet_avg_mileage) ==
    LET norm == _normalize_statuses(row)
        ftxt == _norm_text(norm.fitness)
        fitness_invalid ==
            IF In(s_invalid, ftxt) \/ In(s_expired, ftxt) \/ In(s_revoked, ftxt)
            THEN One ELSE Flt(0)
        jtxt == _norm_text(norm.job_cards)
        jobs == IF AnyIn({s_critical, s_major, s_open}, jtxt) THEN One
                ELSE IF AnyIn({s_minor, s_pending}, jtxt) THEN Half
                ELSE Flt(0)
        btxt == _norm_text(norm.branding)
        branding == IF btxt = s_high THEN One ELSE IF btxt = s_medium THEN Half ELSE Flt(0)
        mileage == FloatOrZero(GetJson(row, "mileage"))
        dev == Sub(mileage, fleet_avg_mileage)
        mileage_dev == IF dev[1] < 0 THEN Neg(dev) ELSE dev
        ctxt == _norm_text(norm.cleaning)
        cleaning_need == IF In(s_complete, ctxt) \/ In(s_clean, ctxt) THEN Flt(0)
                         ELSE IF In(s_partial, ctxt) THEN Half ELSE One
        stab == strip(norm.stabling)
        geometry == IF stab # Empty THEN Flt(0) ELSE Half
        penalty == IF Lt(Flt(0), fitness_invalid) THEN PenaltyInvalid ELSE Flt(0)
    IN  [objectives |->
            <<fitness_invalid, jobs, branding, mileage_dev, cleaning_need, geometry>>,
         extras |->
            [fitness |-> norm.fitness,
             job_card_status |-> norm.job_cards,
             branding_priority |-> norm.branding,
             mileage |-> mileage,
             cleaning_status |-> norm.cleaning,
             stabling_position |-> norm.stabling,
             updated_at |-> Get(row, "updated_at")],
         penalty |-> penalty,
         alerts |->
            [fitness_invalid |-> fitness_invalid # Flt(0),
             job_open |-> In(jtxt, s_open) \/ AnyIn({s_major, s_critical}, jtxt),
             cleaning_pending |-> In(s_pending, ctxt),
             cleaning_partial |-> In(s_partial, ctxt),
             no_stabling |-> stab = Empty]]

\* the defaults of weights.get(...) in apply_weights, in the order of the objectives
DefaultWeights == <<Flt(5), Flt(2), Rat(3, 2), Flt(1), Rat(5, 4), Rat(3, 4)>>
WeightNames == <<"fitness", "jobs", "branding", "mileage", "cleaning", "stabling">>

\* weights.get(WeightNames[k], DefaultWeights[k])
WeightOf(wts, k) ==
    IF WeightNames[k] \in DOMAIN wts THEN wts[WeightNames[k]] ELSE DefaultWeights[k]

\* apply_weights(objs, weights)
apply_weights(objs, wts) ==
    LET cols == IF objs # <<>>
                THEN [k \in 1..Len(objs[1]) |-> [i \in 1..Len(objs) |-> objs[i][k]]]
                ELSE <<>>
        cols_norm == [k \in 1..Len(cols) |-> _norm(cols[k])]
    IN  [i \in 1..Len(objs) |->
            [k \in 1..Len(WeightNames) |-> Mul(cols_norm[k][i], WeightOf(wts, k))]]

\* the advisory of detect_conflicts for the telecom clearance
TelecomAdvisory ==
    "Telecom clearance missing/expired: request immediate validation before movement."

\* detect_conflicts(item): the list of advisories
detect_conflicts(item) ==
    LET fitness == _norm_text(item.fitness_certificate_status)
        jobs == _norm_text(item.job_card_status)
        cleaning == _norm_text(item.cleaning_status)
        stabling == IF item.stabling_position = None THEN Empty ELSE item.stabling_position
        telecom == _norm_text(Get(item, "telecom_clearance"))
    IN  (IF AnyIn({s_expired, s_invalid, s_revoked}, fitness)
         THEN <<"Fitness certificate invalid/expired: assign to Inspection Bay and block induction.">> ELSE <<>>)
        \o (IF telecom \in {s_missing, s_expired}
            THEN <<TelecomAdvisory>> ELSE <<>>)
        \o (IF AnyIn({s_open, s_major, s_critical}, jobs)
            THEN <<"Open or critical job cards present: review and schedule maintenance.">> ELSE <<>>)
        \o (IF cleaning \notin {s_complete, s_clean}
            THEN <<"Cleaning not complete: allocate slot or defer induction.">> ELSE <<>>)
        \o (IF stabling = Empty
            THEN <<"No stabling bay assigned: allocate bay to reduce shunting time.">> ELSE <<>>)

\* the category rank_endpoint derives from the alerts of a row (lines 577-581)
induction_category(alerts) ==
    IF alerts.fitness_invalid THEN "Inspection Bay Hold"
    ELSE IF alerts.cleaning_pending \/ alerts.cleaning_partial THEN "Cleaning/Detailing"
    ELSE "Revenue Service"

\* the names of the alerts that generate_basic_explanation lists, in its order
alert_parts(alerts) ==
    (IF alerts.fitness_invalid THEN <<"Fitness invalid">> ELSE <<>>)
    \o (IF alerts.job_open THEN <<"Open job cards">> ELSE <<>>)
    \o (IF alerts.cleaning_pending THEN <<"Cleaning pending">> ELSE <<>>)
    \o (IF alerts.cleaning_partial THEN <<"Cleaning partial">> ELSE <<>>)
    \o (IF alerts.no_stabling THEN <<"No stabling">> ELSE <<>>)

\* one pass of the loop of rank_endpoint that builds the response (lines 583-613)
result_item(base, extras, alerts, rank) ==
    LET item == [train_id |-> Get(base, "train_id"),
                 pareto_rank |-> rank,
                 fitness_certificate_status |-> extras.fitness,
                 job_card_status |-> extras.job_card_status,
                 branding_priority |-> extras.branding_priority,
                 mileage |-> extras.mileage,
                 cleaning_status |-> extras.cleaning_status,
                 stabling_position |-> extras.stabling_position,
                 updated_at |-> extras.updated_at]
        conflicts == detect_conflicts(item)
        with_conflicts == IF conflicts # <<>>
                          THEN item @@ [conflicts |-> conflicts] ELSE item
    IN  with_conflicts
        @@ [explanation |-> [train_id |-> item.train_id,
                             pareto_rank |-> item.pareto_rank,
                             alerts |-> alert_parts(alerts)],
            alerts |-> alerts]

\* ------------------------------------------------- command-line ranking

\* ObjectiveConfig(): the default weights, no explicit normalisers
DefaultConfig ==
    [weight_fitness_invalid |-> Flt(5),
     weight_open_work_orders |-> Flt(2),
     weight_branding_hours |-> Rat(3, 2),
     weight_mileage_deviation |-> Flt(1),
     weight_cleaning_need |-> Rat(5, 4),
     weight_stabling_move |-> Rat(3, 4),
     norm_open_work_orders |-> None,
     norm_branding_hours |-> None,
     norm_mileage_deviation |-> None,
     norm_cleaning_need |-> None,
     norm_stabling_move |-> None]

\* eps of compute_objectives. The source has 1e-9; its denominators do not fit TLC's
\* 32-bit integers, so the model takes a larger eps > 0. Every value of one column is
\* divided by the same n + eps, so the order of the values of a column and the ratios
\* of their differences are those of the source.
Eps == Rat(1, 1000)

AbsF(a) == IF a[1] < 0 THEN Neg(a) ELSE a

\* max(1.0, x)
AtLeastOne(x) == IF Lt(x, One) THEN One ELSE x

\* norm or max(1.0, float(max(vals, default=1))): the denominator of one column
Denominator(norm, vals) ==
    IF norm # None /\ norm # Flt(0) THEN norm
    ELSE AtLeastOne(IF vals = <<>> THEN One ELSE MaxF(vals))

\* rank: Optional[int] = None of TrainComputed, as a number that is no rank
NoRank == 0

\* compute_objectives(trains, cfg): the list of TrainComputed
compute_objectives(trs, cfg) ==
    LET col(F(_)) == [i \in 1..Len(trs) |-> F(trs[i])]
        dev(t) == AbsF(Sub(t.mileage_km, t.mileage_target_km))
        n_open == Denominator(cfg.norm_open_work_orders,
                              col(LAMBDA t : Flt(t.open_work_orders)))
        n_brand == Denominator(cfg.norm_branding_hours,
                               col(LAMBDA t : t.branding_hours_remaining))
        n_mileage == Denominator(cfg.norm_mileage_deviation, col(dev))
        n_clean == Denominator(cfg.norm_cleaning_need,
                               col(LAMBDA t : t.cleaning_need_score))
        n_stable == Denominator(cfg.norm_stabling_move,
                                col(LAMBDA t : t.stabling_move_minutes))
        obj(t) == <<IF t.fitness_valid THEN Flt(0) ELSE One,
                    Div(Flt(t.open_work_orders), Add(n_open, Eps)),
                    Div(t.branding_hours_remaining, Add(n_brand, Eps)),
                    Div(dev(t), Add(n_mileage, Eps)),
                    Div(t.cleaning_need_score, Add(n_clean, Eps)),
                    Div(t.stabling_move_minutes, Add(n_stable, Eps))>>
        weighted(o) == <<Mul(o[1], cfg.weight_fitness_invalid),
                         Mul(o[2], cfg.weight_open_work_orders),
                         Mul(o[3], cfg.weight_branding_hours),
                         Mul(o[4], cfg.weight_mileage_deviation),
                         Mul(o[5], cfg.weight_cleaning_need),
                         Mul(o[6], cfg.weight_stabling_move)>>
    IN  [i \in 1..Len(trs) |->
            [train |-> trs[i],
             objectives |-> obj(trs[i]),
             weighted_objectives |-> weighted(obj(trs[i])),
             rank |-> NoRank,
             crowding_distance |-> Flt(0)]]

\* dominates(a, b)
dominates(a, b) ==
    LET ks == 1..(IF Len(a) < Len(b) THEN Len(a) ELSE Len(b))
        not_worse_all == \A k \in ks : Le(a[k], b[k])
        strictly_better_any == \E k \in ks : Lt(a[k], b[k])
    IN  not_worse_all /\ strictly_better_any

\* the loop "for q in S[p]" of non_dominated_sort; st = [pop, n_dom, next_front]
RECURSIVE nds_for_q(_, _, _)
nds_for_q(qs, rank, st) ==
    IF qs = <<>> THEN st
    ELSE LET q == Head(qs)
             nd == [st.n_dom EXCEPT ![q] = @ - 1]
         IN  nds_for_q(Tail(qs), rank,
                IF nd[q] = 0
                THEN [pop |-> [st.pop EXCEPT ![q].rank = rank + 1],
                      n_dom |-> nd,
                      next_front |-> Append(st.next_front, q)]
                ELSE [st EXCEPT !.n_dom = nd])

\* the loop "for p in current_front" of non_dominated_sort
RECURSIVE nds_for_p(_, _, _, _)
nds_for_p(ps, S, rank, st) ==
    IF ps = <<>> THEN st
    ELSE nds_for_p(Tail(ps), S, rank, nds_for_q(S[Head(ps)], rank, st))

\* the loop "while current_front" of non_dominated_sort
RECURSIVE nds_while(_, _, _, _, _, _)
nds_while(current_front, S, rank, pop, n_dom, frs) ==
    IF current_front = <<>> THEN [pop |-> pop, fronts |-> frs]
    ELSE LET r == nds_for_p(current_front, S, rank,
                            [pop |-> pop, n_dom |-> n_dom, next_front |-> <<>>])
         IN  nds_while(r.next_front, S, rank + 1, r.pop, r.n_dom,
                       IF r.next_front # <<>> THEN Append(frs, r.next_front) ELSE frs)

\* the first loop nest of non_dominated_sort: S[p], in the order q is visited
nds_S(pop) ==
    LET n == Len(pop)
        w(i) == pop[i].weighted_objectives
    IN  [p \in 1..n |-> Ascending(n, {q \in 1..n : q # p /\ dominates(w(p), w(q))})]

\* the first loop nest of non_dominated_sort: n_dom[p]
nds_n_dom(pop) ==
    LET n == Len(pop)
        w(i) == pop[i].weighted_objectives
    IN  [p \in 1..n |->
            Cardinality({q \in 1..n :
                q # p /\ ~dominates(w(p), w(q)) /\ dominates(w(q), w(p))})]

\* non_dominated_sort, lines 218-220: the members of the first front get rank 1
nds_first_ranks(pop, n_dom) ==
    [i \in 1..Len(pop) |-> IF n_dom[i] = 0 THEN [pop[i] EXCEPT !.rank = 1] ELSE pop[i]]

\* non_dominated_sort(pop): the returned fronts and pop with the ranks it has set
non_dominated_sort(pop) ==
    LET n == Len(pop)
        S == nds_S(pop)
        n_dom == nds_n_dom(pop)
        current_front == Ascending(n, {i \in 1..n : n_dom[i] = 0})
        pop1 == nds_first_ranks(pop, n_dom)
    IN  nds_while(current_front, S, 1, pop1, n_dom, <<current_front>>)

\* the loop "for j in range(1, len(indices_sorted) - 1)" of crowding_distance
RECURSIVE cd_for_j(_, _, _, _, _)
cd_for_j(j, indices_sorted, obj_idx, span, pop) ==
    IF j > Len(indices_sorted) - 1 THEN pop
    ELSE LET prev_val == pop[indices_sorted[j - 1]].weighted_objectives[obj_idx]
             next_val == pop[indices_sorted[j + 1]].weighted_objectives[obj_idx]
         IN  cd_for_j(j + 1, indices_sorted, obj_idx, span,
                [pop EXCEPT ![indices_sorted[j]].crowding_distance =
                    Add(@, Div(Sub(next_val, prev_val), span))])

\* the loop "for obj_idx in range(m)" of crowding_distance
RECURSIVE cd_for_obj(_, _, _, _)
cd_for_obj(obj_idx, m, indices, pop) ==
    IF obj_idx > m THEN pop
    ELSE LET indices_sorted ==
                 SortedByKey(indices,
                     [i \in Range(indices) |-> pop[i].weighted_objectives[obj_idx]])
             last == indices_sorted[Len(indices_sorted)]
             min_val == pop[indices_sorted[1]].weighted_objectives[obj_idx]
             max_val == pop[last].weighted_objectives[obj_idx]
             span == Sub(max_val, min_val)
             p1 == [pop EXCEPT ![indices_sorted[1]].crowding_distance = Inf]
             p2 == [p1 EXCEPT ![last].crowding_distance = Inf]
         IN  IF span = Flt(0) THEN cd_for_obj(obj_idx + 1, m, indices, p2)
             ELSE cd_for_obj(obj_idx + 1, m, indices,
                             cd_for_j(2, indices_sorted, obj_idx, span, p2))

\* crowding_distance(pop, indices): pop with the distances of the front set
crowding_distance(pop, indices) ==
    IF indices = <<>> THEN pop
    ELSE cd_for_obj(1, Len(pop[indices[1]].weighted_objectives), indices,
            [i \in 1..Len(pop) |->
                IF i \in Range(indices)
                THEN [pop[i] EXCEPT !.crowding_distance = Flt(0)] ELSE pop[i]])

\* the loop "for front in fronts" of nsga_rank
RECURSIVE rank_for_front(_, _)
rank_for_front(frs, pop) ==
    IF frs = <<>> THEN pop
    ELSE rank_for_front(Tail(frs), crowding_distance(pop, Head(frs)))

\* x < y for the sort keys (rank or inf, -crowding_distance) of nsga_rank
RankKeyLt(x, y) ==
    LET rx == IF x.rank = NoRank THEN Inf ELSE Flt(x.rank)
        ry == IF y.rank = NoRank THEN Inf ELSE Flt(y.rank)
    IN  Lt(rx, ry)
        \/ (rx = ry /\ Lt(Neg(x.crowding_distance), Neg(y.crowding_distance)))

\* sorted(pop, key=...) of nsga_rank, as the list of the indices of pop: stable
RECURSIVE InsertRanked(_, _, _)
InsertRanked(sorted, i, pop) ==
    IF sorted = <<>> THEN <<i>>
    ELSE LET last == sorted[Len(sorted)] IN
         IF RankKeyLt(pop[i], pop[last])
         THEN Append(InsertRanked(SubSeq(sorted, 1, Len(sorted) - 1), i, pop), last)
         ELSE Append(sorted, i)

RECURSIVE SortRanked(_, _)
SortRanked(n, pop) ==
    IF n = 0 THEN <<>> ELSE InsertRanked(SortRanked(n - 1, pop), n, pop)

\* ClassificationThresholds(): the defaults
DefaultThresholds ==
    [max_open_work_orders_for_ready |-> 0,
     max_cleaning_need_for_ready |-> Rat(3, 10),
     max_stabling_move_for_ready |-> Flt(10),
     cleaning_need_threshold |-> Half,
     maintenance_open_work_orders_threshold |-> 1]

\* the category classify gives one item
classify_category(t, thresholds) ==
    IF ~t.fitness_valid
       /\ t.open_work_orders >= thresholds.maintenance_open_work_orders_threshold
    THEN "Inspection Bay: Maintenance"
    ELSE IF Le(thresholds.cleaning_need_threshold, t.cleaning_need_score)
            /\ t.cleaning_slot_available
    THEN "Cleaning/Detailing"
    ELSE LET ready ==
                 /\ t.fitness_valid
                 /\ t.open_work_orders <= thresholds.max_open_work_orders_for_ready
                 /\ Le(t.cleaning_need_score, thresholds.max_cleaning_need_for_ready)
                 /\ Le(t.stabling_move_minutes, thresholds.max_stabling_move_for_ready)
         IN  IF ready THEN "Revenue Service" ELSE "Revenue Service (Monitor)"

\* the reasons classify stores on one item
classify_reasons(item) ==
    [fitness_valid |-> item.train.fitness_valid,
     open_work_orders |-> item.train.open_work_orders,
     branding_hours_remaining |-> item.train.branding_hours_remaining,
     mileage_deviation |-> AbsF(Sub(item.train.mileage_km, item.train.mileage_target_km)),
     cleaning_need_score |-> item.train.cleaning_need_score,
     cleaning_slot_available |-> item.train.cleaning_slot_available,
     stabling_move_minutes |-> item.train.stabling_move_minutes,
     pareto_rank |-> item.rank,
     crowding_distance |-> item.crowding_distance]

\* classify(ranked, thresholds): one (item, category) per item of ranked, in its
\* order; rk lists the items as indices of pop
classify(rk, pop, thresholds) ==
    [a \in 1..Len(rk) |->
        [item |-> rk[a],
         reasons |-> classify_reasons(pop[rk[a]]),
         category |-> classify_category(pop[rk[a]].train, thresholds)]]

\* --------------------------------------------------------- specifications

\* the values no run has set yet
Unset == <<>>

\* nsga_order called on its own: the vectors and the penalties it is given.
\*  - feasible and infeasible candidates, the infeasible ones of two penalties, with
\*    vectors of two objectives of two values;
\*  - feasible candidates only, with vectors of two objectives of three values;
\*  - feasible candidates only, with vectors of three objectives, the third the
\*    same for all (a column that apply_weights has normalised to 0.0)
ObjValues == {Flt(0), Flt(1), Flt(2)}
Vectors == ObjValues \X ObjValues
MixedValues == {Flt(0), Flt(1)}
MixedVectors == MixedValues \X MixedValues
DegenerateVectors == ObjValues \X ObjValues \X {Flt(0)}
Penalties == {Flt(0), PenaltyInvalid, Flt(20)}

InitOrder ==
    /\ entry = "nsga_order"
    /\ pc = "nsga_order"
    /\ \/ \E n \in 0..MaxPop :
            /\ weighted_objs \in [1..n -> MixedVectors]
            /\ constraint_penalties \in [1..n -> Penalties]
       \/ \E n \in 0..MaxFeasiblePop :
            /\ weighted_objs \in [1..n -> Vectors]
            /\ constraint_penalties = [i \in 1..n |-> Flt(0)]
       \/ \E n \in 0..MaxDegeneratePop :
            /\ weighted_objs \in [1..n -> DegenerateVectors]
            /\ constraint_penalties = [i \in 1..n |-> Flt(0)]
    /\ fronts = Unset /\ order = Unset
    /\ rows = Unset /\ weights = Unset /\ raw_objs = Unset /\ extras_list = Unset
    /\ penalties = Unset /\ alerts_list = Unset /\ category = Unset /\ results = Unset
    /\ trains = Unset /\ computed = Unset /\ ranked = Unset /\ categorized = Unset /\ nds = Unset

\* the rows POST /rank is given; the i-th row carries the i-th id and timestamp
s_Expired_in == <<"E", "X", "P", "I", "R", "E", "D", " ">>
s_bay == <<"b", "a", "y", "1">>
FitnessTexts == {s_valid, s_Expired_in, s_invalid, s_revoked, s_conditional}
JobTexts == {s_closed, s_open}
CleaningTexts == {s_complete, s_pending, s_partial}
StablingTexts == {s_bay, Empty}
Mileages == {JsonNumber(Flt(0)), JsonNumber(Flt(2))}

\* rows that differ in their statuses; every key is there and the mileage a number
StatusRows ==
    [fitness : FitnessTexts,
     job_cards : JobTexts,
     branding : {s_medium},
     mileage : Mileages,
     cleaning : CleaningTexts,
     stabling : StablingTexts,
     has_id : {TRUE},
     telecom_clearance : {None}]

\* the mileage a row can carry that is no number: null, '', a text that writes a
\* number, a text that writes none
s_2 == <<" ", "2">>
s_na == <<"n", "/", "a">>
MileageTexts == {JsonNull, JsonString(Empty), JsonString(s_2), JsonString(s_na)}

\* the telecom clearance a row can carry (None: the key is absent)
s_Missing_in == <<"M", "i", "s", "s", "i", "n", "g">>
TelecomTexts == {None, s_Missing_in, s_expired}

\* rows that differ in what they carry: a mileage that is no number, no train_id,
\* a telecom clearance
IngestRows ==
    [fitness : {s_valid},
     job_cards : {s_closed},
     branding : {s_medium},
     mileage : MileageTexts,
     cleaning : {s_complete},
     stabling : {s_bay},
     has_id : BOOLEAN,
     telecom_clearance : TelecomTexts]

RowFields == StatusRows \cup IngestRows

\* the dict of row i: a key whose value is null or that is absent reads as None
Row(i, f) ==
    LET keys == {"fitness", "job_cards", "branding", "cleaning", "stabling", "updated_at"}
                \cup (IF f.has_id THEN {"train_id"} ELSE {})
                \cup (IF f.mileage # JsonNull THEN {"mileage"} ELSE {})
                \cup (IF f.telecom_clearance # None THEN {"telecom_clearance"} ELSE {})
    IN  [k \in keys |->
            IF k = "train_id" THEN <<"T", i>>
            ELSE IF k = "updated_at" THEN <<"ts", i>>
            ELSE f[k]]

InitRank ==
    /\ entry = "rank_endpoint"
    /\ pc = "rank_endpoint"
    /\ \E n \in 0..MaxRows :
        \E fs \in [1..n -> RowFields] : rows = [i \in 1..n |-> Row(i, fs[i])]
    /\ weights = Unset
    /\ raw_objs = Unset /\ extras_list = Unset /\ penalties = Unset /\ alerts_list = Unset
    /\ weighted_objs = Unset /\ constraint_penalties = Unset
    /\ fronts = Unset /\ order = Unset /\ category = Unset /\ results = Unset
    /\ trains = Unset /\ computed = Unset /\ ranked = Unset /\ categorized = Unset /\ nds = Unset

\* the trainsets the command line is given (read_csv)
TrainFields ==
    [fitness_valid : BOOLEAN,
     open_work_orders : {0, 2},
     branding_hours_remaining : {Flt(0)},
     mileage_km : {Flt(0)},
     mileage_target_km : {Flt(0)},
     cleaning_need_score : {Flt(0), One},
     cleaning_slot_available : {TRUE},
     stabling_move_minutes : {Flt(5)}]

Train(i, f) == [train_id |-> <<"T", i>>] @@ f

InitCli ==
    /\ entry = "main"
    /\ pc = "main"
    /\ \E n \in 0..MaxTrains :
        \E fs \in [1..n -> TrainFields] : trains = [i \in 1..n |-> Train(i, fs[i])]
    /\ computed = Unset /\ ranked = Unset /\ categorized = Unset /\ nds = Unset /\ fronts = Unset
    /\ rows = Unset /\ weights = Unset /\ raw_objs = Unset /\ extras_list = Unset
    /\ penalties = Unset /\ alerts_list = Unset /\ category = Unset /\ results = Unset
    /\ weighted_objs = Unset /\ constraint_penalties = Unset /\ order = Unset

\* the raw objective vectors apply_weights is given, [fitness_invalid, jobs, branding,
\* mileage_dev, cleaning_need, geometry]: three that trade mileage deviation against
\* cleaning need, one they dominate, two of invalid fitness; the branding is 0.5 for
\* all (a column of one value that is not 0.0)
MileageDevs == {Flt(0), Flt(1), Flt(3)}
CleaningNeeds == {Flt(0), Half, One}
RawVector(f, m, c) == <<f, Flt(0), Half, m, c, Flt(0)>>
RawVectors ==
    {RawVector(Flt(0), Flt(0), One), RawVector(Flt(0), Flt(1), Half),
     RawVector(Flt(0), Flt(3), Flt(0)), RawVector(Flt(0), Flt(3), One),
     RawVector(One, Flt(0), One), RawVector(One, Flt(3), Flt(0))}

\* payload.get("weights", {}): none, some of them, one of them 0, all strictly positive
\* but the last
PositiveWeightConfigs ==
    {<<>>,
     [fitness |-> One, mileage |-> Half, cleaning |-> Flt(3)],
     [fitness |-> Flt(2), jobs |-> One, branding |-> One, mileage |-> Flt(4),
      cleaning |-> Rat(1, 4), stabling |-> One]}
WeightConfigs == PositiveWeightConfigs \cup {[mileage |-> Flt(0)]}

\* apply_weights and nsga_order on any raw vectors and weights (rank_endpoint, lines
\* 566-567); the penalty is the one of line 168
InitWeights ==
    /\ entry = "apply_weights"
    /\ pc = "mapped"
    /\ \E n \in 0..MaxWeighted : raw_objs \in [1..n -> RawVectors]
    /\ penalties = [i \in 1..Len(raw_objs) |->
                        IF Lt(Flt(0), raw_objs[i][1]) THEN PenaltyInvalid ELSE Flt(0)]
    /\ weights \in WeightConfigs
    /\ rows = Unset /\ extras_list = Unset /\ alerts_list = Unset
    /\ weighted_objs = Unset /\ constraint_penalties = Unset
    /\ fronts = Unset /\ order = Unset /\ category = Unset /\ results = Unset
    /\ trains = Unset /\ computed = Unset /\ ranked = Unset /\ categorized = Unset /\ nds = Unset

\* the TrainComputed of candidate i with the weighted objectives w, as
\* compute_objectives leaves it: no rank yet
Computed(i, w) ==
    [train |-> [train_id |-> <<"T", i>>],
     objectives |-> w,
     weighted_objectives |-> w,
     rank |-> NoRank,
     crowding_distance |-> Flt(0)]

\* the vectors a sort is given when it is followed round by round: chains of three,
\* pairs where neither dominates, equal vectors
SortVectors == Vectors \ {<<Flt(0), Flt(2)>>, <<Flt(2), Flt(0)>>}

\* one call of a non-dominated sort, of the service on vectors or of the command line
\* on TrainComputed, followed round by round
InitSort ==
    /\ pc = "sort"
    /\ \E n \in 0..MaxSorted : \E ws \in [1..n -> SortVectors] :
        \/ /\ entry = "_non_dominated_sort"
           /\ weighted_objs = ws
           /\ computed = Unset
        \/ /\ entry = "non_dominated_sort"
           /\ computed = [i \in 1..n |-> Computed(i, ws[i])]
           /\ weighted_objs = Unset
    /\ nds = Unset /\ fronts = Unset
    /\ rows = Unset /\ weights = Unset /\ raw_objs = Unset /\ extras_list = Unset
    /\ penalties = Unset /\ alerts_list = Unset /\ category = Unset /\ results = Unset
    /\ constraint_penalties = Unset /\ order = Unset
    /\ trains = Unset /\ ranked = Unset /\ categorized = Unset

\* _non_dominated_sort, lines 224-238, and non_dominated_sort, lines 204-223: the
\* first loop nest and the first front
CountDominations ==
    /\ pc = "sort"
    /\ IF entry = "_non_dominated_sort"
       THEN LET n_dom == _nds_n_dom(weighted_objs)
                current == Ascending(Len(weighted_objs),
                                     {i \in 1..Len(weighted_objs) : n_dom[i] = 0})
            IN  /\ nds' = [S |-> _nds_S(weighted_objs),
                           n_dom |-> n_dom,
                           current |-> current,
                           fronts |-> IF current # <<>> THEN <<current>> ELSE <<>>,
                           rank |-> 1,
                           rounds |-> 0]
                /\ UNCHANGED computed
       ELSE LET n_dom == nds_n_dom(computed)
                current_front == Ascending(Len(computed),
                                           {i \in 1..Len(computed) : n_dom[i] = 0})
            IN  /\ nds' = [S |-> nds_S(computed),
                           n_dom |-> n_dom,
                           current |-> current_front,
                           fronts |-> <<current_front>>,
                           rank |-> 1,
                           rounds |-> 0]
                /\ computed' = nds_first_ranks(computed, n_dom)
    /\ pc' = "peel"
    /\ UNCHANGED <<entry, weighted_objs, constraint_penalties, fronts, order>>
    /\ UNCHANGED <<trains, ranked, categorized>>
    /\ UNCHANGED serviceVars

\* one pass of "while current" (lines 239-248) or "while current_front" (lines
\* 224-235): the counts of the candidates the current front dominates go down, those
\* that reach 0 are the next front; rounds counts the passes
PeelRound ==
    /\ pc = "peel"
    /\ nds.current # <<>>
    /\ IF entry = "_non_dominated_sort"
       THEN LET r == _nds_for_p(nds.current, nds.S, nds.n_dom, <<>>)
            IN  /\ nds' = [nds EXCEPT
                               !.n_dom = r.n_dom,
                               !.current = r.next_front,
                               !.fronts = IF r.next_front # <<>>
                                          THEN Append(@, r.next_front) ELSE @,
                               !.rounds = @ + 1]
                /\ UNCHANGED computed
       ELSE LET r == nds_for_p(nds.current, nds.S, nds.rank,
                               [pop |-> computed, n_dom |-> nds.n_dom, next_front |-> <<>>])
            IN  /\ nds' = [nds EXCEPT
                               !.n_dom = r.n_dom,
                               !.current = r.next_front,
                               !.fronts = IF r.next_front # <<>>
                                          THEN Append(@, r.next_front) ELSE @,
                               !.rank = @ + 1,
                               !.rounds = @ + 1]
                /\ computed' = r.pop
    /\ UNCHANGED <<entry, pc, weighted_objs, constraint_penalties, fronts, order>>
    /\ UNCHANGED <<trains, ranked, categorized>>
    /\ UNCHANGED serviceVars

\* "return fronts" (line 249, line 237), once the current front is empty
ReturnFronts ==
    /\ pc = "peel"
    /\ nds.current = <<>>
    /\ fronts' = nds.fronts
    /\ pc' = "done"
    /\ UNCHANGED <<entry, weighted_objs, constraint_penalties, order, nds>>
    /\ UNCHANGED cliVars
    /\ UNCHANGED serviceVars

\* rank_endpoint, lines 550-564: the fleet average and the mapping of every row; a
\* ValueError of float() is not caught and ends the request
MapRows ==
    /\ pc = "rank_endpoint"
    /\ LET mileages == [i \in 1..Len(rows) |-> FloatOrZero(GetJson(rows[i], "mileage"))]
           fleet_avg == Div(SumF(mileages),
                            Flt(IF Len(mileages) = 0 THEN 1 ELSE Len(mileages)))
           mapped == [i \in 1..Len(rows) |-> map_row_to_objectives(rows[i], fleet_avg)]
       IN  IF \E i \in 1..Len(rows) : mileages[i] = ValueError
           THEN /\ pc' = "failed"
                /\ UNCHANGED <<raw_objs, extras_list, penalties, alerts_list>>
           ELSE /\ raw_objs' = [i \in 1..Len(rows) |-> mapped[i].objectives]
                /\ extras_list' = [i \in 1..Len(rows) |-> mapped[i].extras]
                /\ penalties' = [i \in 1..Len(rows) |-> mapped[i].penalty]
                /\ alerts_list' = [i \in 1..Len(rows) |-> mapped[i].alerts]
                /\ pc' = "mapped"
    /\ UNCHANGED <<entry, rows, weights, category, results>>
    /\ UNCHANGED orderVars
    /\ UNCHANGED cliVars
    /\ UNCHANGED nds

\* rank_endpoint, lines 566-567: apply_weights and the call of nsga_order
ApplyWeights ==
    /\ pc = "mapped"
    /\ weighted_objs' = apply_weights(raw_objs, weights)
    /\ constraint_penalties' = penalties
    /\ pc' = "nsga_order"
    /\ UNCHANGED <<entry, fronts, order>>
    /\ UNCHANGED serviceVars
    /\ UNCHANGED cliVars
    /\ UNCHANGED nds

\* nsga_order up to line 305: the fronts; _HAVE_PYMOO is fixed by the installation
BuildFronts ==
    /\ pc = "nsga_order"
    /\ \E have_pymoo \in BOOLEAN :
        fronts' = nsga_fronts(weighted_objs, constraint_penalties, have_pymoo)
    /\ pc' = "fronts"
    /\ UNCHANGED <<entry, weighted_objs, constraint_penalties, order>>
    /\ UNCHANGED serviceVars
    /\ UNCHANGED cliVars
    /\ UNCHANGED nds

\* nsga_order from line 306: ranks, crowding distances, sort, return to the caller
SortAndReturn ==
    /\ pc = "fronts"
    /\ order' = nsga_sorted(fronts, weighted_objs)
    /\ pc' = IF entry = "rank_endpoint" THEN "ordered" ELSE "done"
    /\ UNCHANGED <<entry, weighted_objs, constraint_penalties, fronts>>
    /\ UNCHANGED serviceVars
    /\ UNCHANGED cliVars
    /\ UNCHANGED nds

\* rank_endpoint, lines 570-615: the response, one record per entry of order
BuildResults ==
    /\ pc = "ordered"
    /\ category' = [a \in 1..Len(order) |-> induction_category(alerts_list[order[a][1]])]
    /\ results' = [a \in 1..Len(order) |->
            result_item(rows[order[a][1]], extras_list[order[a][1]],
                        alerts_list[order[a][1]], order[a][3])]
    /\ pc' = "done"
    /\ UNCHANGED <<entry, rows, weights, raw_objs, extras_list, penalties, alerts_list>>
    /\ UNCHANGED orderVars
    /\ UNCHANGED cliVars
    /\ UNCHANGED nds

\* main, line 413: compute_objectives with the default configuration
ComputeObjectives ==
    /\ pc = "main"
    /\ computed' = compute_objectives(trains, DefaultConfig)
    /\ pc' = "computed"
    /\ UNCHANGED <<entry, trains, ranked, categorized>>
    /\ UNCHANGED serviceVars
    /\ UNCHANGED orderVars
    /\ UNCHANGED nds

\* nsga_rank, line 266: non_dominated_sort sets the ranks and returns the fronts
NonDominatedSort ==
    /\ pc = "computed"
    /\ LET r == non_dominated_sort(computed)
       IN  /\ computed' = r.pop
           /\ fronts' = r.fronts
    /\ pc' = "sorted"
    /\ UNCHANGED <<entry, trains, ranked, categorized>>
    /\ UNCHANGED <<weighted_objs, constraint_penalties, order>>
    /\ UNCHANGED serviceVars
    /\ UNCHANGED nds

\* nsga_rank, lines 267-271: the crowding distances of every front, then the sort
CrowdAndSort ==
    /\ pc = "sorted"
    /\ LET pop == rank_for_front(fronts, computed)
       IN  /\ computed' = pop
           /\ ranked' = SortRanked(Len(pop), pop)
    /\ pc' = "done"
    /\ UNCHANGED <<entry, trains, categorized>>
    /\ UNCHANGED serviceVars
    /\ UNCHANGED orderVars
    /\ UNCHANGED nds

\* the thresholds the command line is given (--ready-max-open ... --maint-open-threshold)
ThresholdConfigs ==
    {DefaultThresholds,
     [max_open_work_orders_for_ready |-> 2,
      max_cleaning_need_for_ready |-> One,
      max_stabling_move_for_ready |-> Flt(2),
      cleaning_need_threshold |-> Flt(2),
      maintenance_open_work_orders_threshold |-> 0]}

\* main, line 415: classify, with the thresholds of the arguments
Classify ==
    /\ entry = "main"
    /\ pc = "done"
    /\ \E thresholds \in ThresholdConfigs :
        categorized' = classify(ranked, computed, thresholds)
    /\ pc' = "classified"
    /\ UNCHANGED <<entry, trains, computed, ranked, fronts>>
    /\ UNCHANGED <<weighted_objs, constraint_penalties, order>>
    /\ UNCHANGED serviceVars
    /\ UNCHANGED nds

NextOrder == BuildFronts \/ SortAndReturn

NextRank == MapRows \/ ApplyWeights \/ BuildFronts \/ SortAndReturn \/ BuildResults

\* nsga_rank on the objectives of the trainsets
NextCli == ComputeObjectives \/ NonDominatedSort \/ CrowdAndSort

\* main
NextMain == ComputeObjectives \/ NonDominatedSort \/ CrowdAndSort \/ Classify

\* nsga_order on any vectors and penalties
SpecOrder == InitOrder /\ [][NextOrder]_vars

NextWeights == ApplyWeights \/ BuildFronts \/ SortAndReturn

\* apply_weights, then nsga_order, on any raw vectors and weights
SpecWeights == InitWeights /\ [][NextWeights]_vars

NextSort == CountDominations \/ PeelRound \/ ReturnFronts

\* one call of a non-dominated sort, round by round
SpecSort == InitSort /\ [][NextSort]_vars

\* one request POST /rank
SpecRank == InitRank /\ [][NextRank]_vars

\* one run of the command line
SpecCli == InitCli /\ [][NextMain]_vars

\* the two non-dominated sorts: nsga_order of the service, nsga_rank of the command line
SpecSorts == (InitOrder \/ InitCli) /\ [][NextOrder \/ NextCli]_vars

\* ------------------------------------------------------------- properties

\* a Pareto-dominates b: nowhere worse, somewhere strictly better (minimisation)
ParetoDominates(a, b) ==
    /\ \A k \in DOMAIN a : ~Lt(b[k], a[k])
    /\ \E k \in DOMAIN a : Lt(a[k], b[k])

\* a >= b on crowding distances, math.inf the largest
CrowdGe(a, b) == IsInf(a) \/ (~IsInf(b) /\ a[1] * b[2] >= b[1] * a[2])

\* nsga_order, called on its own, has returned
OrderDone == entry = "nsga_order" /\ pc = "done"

\* rank_endpoint has returned
RankDone == entry = "rank_endpoint" /\ pc = "done"

\* the command line has ranked its trainsets
CliDone == entry = "main" /\ pc \in {"done", "classified"}

\* candidate i of nsga_order is feasible: penalty <= 0
Feasible(i) == ~Lt(Flt(0), constraint_penalties[i])

\* the candidate, the rank and the crowding distance of entry a of order
Cand(a) == order[a][1]
RankAt(a) == order[a][3]
CrowdAt(a) == Neg(order[a][2])

\* C1: in the order nsga_order returns, every candidate with penalty <= 0 has a
\* strictly smaller rank than, and comes before, every candidate with penalty > 0,
\* whatever the objective values.
C1_FeasibleBeforeInfeasible ==
    OrderDone =>
        \A a, b \in 1..Len(order) :
            (Feasible(Cand(a)) /\ ~Feasible(Cand(b))) => (RankAt(a) < RankAt(b) /\ a < b)

\* C1 witness: an infeasible candidate whose vector dominates that of a feasible one
\* has been ranked after it
C1_Witness ==
    /\ OrderDone
    /\ \E a, b \in 1..Len(order) :
        /\ Feasible(Cand(a)) /\ ~Feasible(Cand(b))
        /\ ParetoDominates(weighted_objs[Cand(b)], weighted_objs[Cand(a)])

\* C2: in the command-line ranking every trainset with a valid fitness certificate
\* has a strictly smaller Pareto rank than every trainset with an invalid one.
C2_ValidBeforeInvalid ==
    CliDone =>
        \A i, j \in 1..Len(computed) :
            (computed[i].train.fitness_valid /\ ~computed[j].train.fitness_valid)
                => computed[i].rank < computed[j].rank

\* C3, as claimed: every candidate of rank k+1 is Pareto-dominated by a candidate
\* whose rank is in 1..k, the ranks counted across feasible and infeasible fronts.
C3_DominatedByEarlierRank ==
    OrderDone =>
        \A b \in 1..Len(order) :
            RankAt(b) >= 2 =>
                \E a \in 1..Len(order) :
                    /\ RankAt(a) < RankAt(b)
                    /\ ParetoDominates(weighted_objs[Cand(a)], weighted_objs[Cand(b)])

\* C3, amended: every candidate of rank k+1 that is not in the first front of its
\* feasibility class (some candidate of rank k has its feasibility) is
\* Pareto-dominated by a candidate of rank k of the same feasibility class.
C3_DominatedWithinClass ==
    OrderDone =>
        \A b \in 1..Len(order) :
            (/\ RankAt(b) >= 2
             /\ \E c \in 1..Len(order) :
                    RankAt(c) = RankAt(b) - 1 /\ Feasible(Cand(c)) = Feasible(Cand(b)))
            => \E a \in 1..Len(order) :
                    /\ RankAt(a) = RankAt(b) - 1
                    /\ Feasible(Cand(a)) = Feasible(Cand(b))
                    /\ ParetoDominates(weighted_objs[Cand(a)], weighted_objs[Cand(b)])

\* C3 witness: a candidate of rank 3 with a candidate of its class at rank 2, and an
\* infeasible candidate of the first infeasible front behind a feasible front
C3_Witness ==
    /\ OrderDone
    /\ \E b, c \in 1..Len(order) :
        RankAt(b) = 3 /\ RankAt(c) = 2 /\ Feasible(Cand(c)) = Feasible(Cand(b))
    /\ \E a, b \in 1..Len(order) :
        Feasible(Cand(a)) /\ ~Feasible(Cand(b)) /\ RankAt(b) = RankAt(a) + 1

\* the vectors the fronts of this run index
FrontVector(i) ==
    IF entry = "main" THEN computed[i].weighted_objectives ELSE weighted_objs[i]

\* the fronts of this run have been built
FrontsBuilt ==
    \/ entry \in {"nsga_order", "rank_endpoint"} /\ pc \in {"fronts", "ordered", "done"}
    \/ entry = "main" /\ pc \in {"sorted", "done", "classified"}

\* C4: every front of the fast non-dominated sort (service and command line) is an
\* antichain: no member of a front Pareto-dominates another member of that front.
C4_FrontsAreAntichains ==
    FrontsBuilt =>
        \A f \in 1..Len(fronts) :
            \A i, j \in Range(fronts[f]) :
                ~ParetoDominates(FrontVector(i), FrontVector(j))

\* C4 witness: a front of three members with three different vectors, and a later front
C4_Witness ==
    /\ entry = "nsga_order" /\ pc = "fronts"
    /\ Len(fronts) >= 2
    /\ \E f \in 1..Len(fronts) :
        Cardinality({weighted_objs[i] : i \in Range(fronts[f])}) >= 3

\* C5: the list nsga_order returns, and the list nsga_rank returns, is sorted by
\* ascending rank and, within a rank, by descending crowding distance, infinity first.
C5_SortedByRankThenCrowding ==
    /\ (entry \in {"nsga_order", "rank_endpoint"} /\ pc \in {"ordered", "done"}) =>
        \A a \in 1..(Len(order) - 1) :
            \/ RankAt(a) < RankAt(a + 1)
            \/ RankAt(a) = RankAt(a + 1) /\ CrowdGe(CrowdAt(a), CrowdAt(a + 1))
    /\ CliDone =>
        \A a \in 1..(Len(ranked) - 1) :
            LET x == computed[ranked[a]]
                y == computed[ranked[a + 1]]
            IN  \/ x.rank < y.rank
                \/ x.rank = y.rank /\ CrowdGe(x.crowding_distance, y.crowding_distance)

\* C5 witness: nsga_order has returned two ranks, and in one rank a member of
\* infinite crowding distance stands before a member of finite crowding distance
\* that was given before it
C5_Witness ==
    /\ OrderDone
    /\ \E a \in 1..Len(order) : RankAt(a) = 2
    /\ \E a, b \in 1..Len(order) :
        /\ a < b /\ RankAt(a) = RankAt(b)
        /\ IsInf(CrowdAt(a)) /\ ~IsInf(CrowdAt(b))
        /\ Cand(b) < Cand(a)

\* C6: in the order nsga_order returns, of two candidates with the same rank and the
\* same crowding distance the one with the smaller input index comes first.
C6_TiesKeepInputOrder ==
    OrderDone =>
        \A a, b \in 1..Len(order) :
            (a < b /\ RankAt(a) = RankAt(b) /\ CrowdAt(a) = CrowdAt(b))
                => Cand(a) < Cand(b)

\* the fitness text of a row names, in any case, an expired, invalid or revoked
\* certificate
NamesInvalidFitness(row) ==
    AnyIn({s_expired, s_invalid, s_revoked}, lower(row.fitness))

\* C7: map_row_to_objectives gives a row whose fitness text contains "expired",
\* "invalid" or "revoked" the invalidity 1.0, the penalty 10.0 and the alert
\* fitness_invalid; every other row gets the invalidity 0.0 and the penalty 0.0.
C7_InvalidFitnessIsPenalised ==
    (entry = "rank_endpoint" /\ pc # "rank_endpoint") =>
        \A i \in 1..Len(rows) :
            IF NamesInvalidFitness(rows[i])
            THEN /\ raw_objs[i][1] = One
                 /\ penalties[i] = PenaltyInvalid
                 /\ alerts_list[i].fitness_invalid
            ELSE /\ raw_objs[i][1] = Flt(0)
                 /\ penalties[i] = Flt(0)

\* the disposition of the priority rules for the statuses of a row
RuleCategory(extras) ==
    IF extras.fitness = s_Expired /\ extras.job_card_status = s_Open
    THEN "Inspection Bay Hold"
    ELSE IF extras.cleaning_status \in {s_Pending, s_Partial}
    THEN "Cleaning/Detailing"
    ELSE "Revenue Service"

\* C8: the category rank_endpoint derives is the maintenance hold exactly when the
\* fitness is invalid/expired/revoked and the job cards are open/critical/major,
\* otherwise Cleaning/Detailing when the cleaning is pending or partial, otherwise
\* Revenue Service.
C8_CategoryFollowsRules ==
    RankDone =>
        \A a \in 1..Len(order) : category[a] = RuleCategory(extras_list[Cand(a)])

\* the keys under which a record can carry the crowding distance and the category
CrowdingKeys == {"nsga_crowding", "crowding_distance", "crowding"}
CategoryKeys == {"induction_category", "category"}

\* C9: every record rank_endpoint returns carries the identifier, the rank, the
\* crowding distance, the category and the unchanged update timestamp of its row.
C9_RecordCarriesRanking ==
    RankDone =>
        /\ Len(results) = Len(order)
        /\ \A a \in 1..Len(results) :
            /\ results[a].train_id = Get(rows[Cand(a)], "train_id")
            /\ results[a].pareto_rank = RankAt(a)
            /\ results[a].updated_at = Get(rows[Cand(a)], "updated_at")
            /\ \E k \in CrowdingKeys :
                k \in DOMAIN results[a] /\ results[a][k] = CrowdAt(a)
            /\ \E k \in CategoryKeys :
                k \in DOMAIN results[a] /\ results[a][k] = category[a]

\* C10: an empty list of candidates gives an empty list of fronts (not a list with
\* one empty front) and an empty ranked output, in the service and the command line.
C10_EmptyGivesNoFront ==
    /\ (entry = "nsga_order" /\ weighted_objs = <<>> /\ pc \in {"fronts", "done"})
        => fronts = <<>>
    /\ (OrderDone /\ weighted_objs = <<>>) => order = <<>>
    /\ (entry = "main" /\ trains = <<>> /\ pc \in {"sorted", "done", "classified"}) => fronts = <<>>
    /\ (CliDone /\ trains = <<>>) => ranked = <<>>

\* the crowding distance candidate i has when the run has returned
FinalCrowd(i) ==
    IF entry = "main" THEN computed[i].crowding_distance
    ELSE CrowdAt(CHOOSE a \in 1..Len(order) : Cand(a) = i)

\* the rank candidate i has when the run has returned
FinalRank(i) ==
    IF entry = "main" THEN computed[i].rank
    ELSE RankAt(CHOOSE a \in 1..Len(order) : Cand(a) = i)

\* the number of dimensions of the vectors of this run (m of the crowding distance)
NumDims == IF entry = "main" THEN 6 ELSE Len(weighted_objs[1])

\* sorted(front, key=...) on dimension k, as both crowding distances sort a front
SortedOnDim(front, k) == SortedByKey(front, [i \in Range(front) |-> FrontVector(i)[k]])

\* nsga_order, called on its own, or nsga_rank has returned
SortDone == OrderDone \/ CliDone

\* C11: a population of one candidate is front 1, rank 1, crowding distance infinity;
\* every member of a front of one or two members has infinite crowding distance; and
\* the first and the last member of a front in the sort on any dimension end with
\* infinite crowding distance (no later dimension makes it finite).
C11_BoundaryIsInfinite ==
    SortDone =>
        /\ Len(IF entry = "main" THEN computed ELSE weighted_objs) = 1 =>
                (fronts = <<(<<1>>)>> /\ FinalRank(1) = 1 /\ FinalCrowd(1) = Inf)
        /\ \A f \in 1..Len(fronts) :
            /\ Len(fronts[f]) \in {1, 2} =>
                    \A i \in Range(fronts[f]) : FinalCrowd(i) = Inf
            /\ fronts[f] # <<>> =>
                    \A k \in 1..NumDims :
                        LET sorted_idx == SortedOnDim(fronts[f], k)
                        IN  /\ FinalCrowd(sorted_idx[1]) = Inf
                            /\ FinalCrowd(sorted_idx[Len(sorted_idx)]) = Inf

\* C11 witness: nsga_order has returned a front with a member that is first or last
\* in the sort on one dimension and strictly inside the sort on a later dimension of
\* non-zero span, where a finite share is added to its infinite distance
C11_Witness ==
    /\ OrderDone
    /\ \E f \in 1..Len(fronts) : \E k1, k2 \in 1..NumDims :
        LET s1 == SortedOnDim(fronts[f], k1)
            s2 == SortedOnDim(fronts[f], k2)
        IN  /\ k1 < k2
            /\ Len(s2) >= 3
            /\ FrontVector(s2[1])[k2] # FrontVector(s2[Len(s2)])[k2]
            /\ \E j \in 2..(Len(s2) - 1) :
                    /\ s2[j] \in {s1[1], s1[Len(s1)]}
                    /\ FrontVector(s2[j - 1])[k2] # FrontVector(s2[j + 1])[k2]
                    /\ FinalCrowd(s2[j]) = Inf

\* rank_endpoint has ended with an exception that nothing catches
RankFailed == entry = "rank_endpoint" /\ pc = "failed"

\* the mileage of a row is absent, null, empty or a text that writes no number
MileageIsNoNumber(row) ==
    LET x == GetJson(row, "mileage")
    IN  \/ x = JsonNull
        \/ x.json = "string" /\ (x.value = Empty \/ float_of_str(x.value) = ValueError)

\* C12: a mileage that is absent or unparsable on one row is taken as 0 for that
\* row, and the request still completes: it never makes the whole call fail.
C12_NumericDefaultsToZero ==
    /\ ~RankFailed
    /\ (entry = "rank_endpoint" /\ pc \notin {"rank_endpoint", "failed"}) =>
        \A i \in 1..Len(rows) :
            MileageIsNoNumber(rows[i]) => extras_list[i].mileage = Flt(0)

\* C13: a row without train_id is never ranked and returned: no record of the
\* response stands for a row without an identifier or carries a null identifier.
C13_MissingIdIsRejected ==
    RankDone =>
        \A a \in 1..Len(results) :
            /\ "train_id" \in DOMAIN rows[Cand(a)]
            /\ results[a].train_id # None

\* the row carries a telecom clearance that reads "missing" or "expired"
TelecomNotCleared(row) ==
    _norm_text(Get(row, "telecom_clearance")) \in {s_missing, s_expired}

\* C18: for a row whose telecom_clearance is "missing" or "expired" the conflict
\* advisories of its record contain the clearance advisory.
C18_TelecomAdvisoryIsGiven ==
    RankDone =>
        \A a \in 1..Len(results) :
            TelecomNotCleared(rows[Cand(a)]) =>
                /\ "conflicts" \in DOMAIN results[a]
                /\ TelecomAdvisory \in Range(results[a].conflicts)

\* the three operational dispositions, as classify names them
Dispositions == {"Revenue Service", "Cleaning/Detailing", "Inspection Bay: Maintenance"}

\* C14: classify gives every ranked trainset exactly one category, and the category
\* is one of the three operational dispositions.
C14_ThreeCategories ==
    (entry = "main" /\ pc = "classified") =>
        /\ Len(categorized) = Len(ranked)
        /\ \A a \in 1..Len(categorized) :
            /\ categorized[a].item = ranked[a]
            /\ categorized[a].category \in Dispositions

\* the vector v with dimension k left out
WithoutDim(v, k) == SubSeq(v, 1, k - 1) \o SubSeq(v, k + 1, Len(v))

\* all members of the front have the same value on dimension k
DegenerateOn(front, k) ==
    \A i, j \in Range(front) : weighted_objs[i][k] = weighted_objs[j][k]

\* C15: a dimension on which all members of a front share one value contributes
\* nothing: the crowding distance nsga_order returns for every member of the front
\* is the one computed with that dimension left out.
C15_DegenerateDimensionIsLeftOut ==
    OrderDone =>
        \A f \in 1..Len(fronts) : \A k \in 1..NumDims :
            DegenerateOn(fronts[f], k) =>
                LET pop == [i \in 1..Len(weighted_objs) |-> WithoutDim(weighted_objs[i], k)]
                    d == _crowding_distance(fronts[f], pop)
                IN  \A i \in Range(fronts[f]) : FinalCrowd(i) = d[i]

\* the member of lowest index among those of the front that have the value of
\* member i on dimension k
LowestTied(front, i, k) ==
    CHOOSE j \in Range(front) :
        /\ weighted_objs[j][k] = weighted_objs[i][k]
        /\ \A h \in Range(front) : weighted_objs[h][k] = weighted_objs[i][k] => j <= h

\* C16: in every front the members of infinite crowding distance are, for each
\* dimension, the lowest-index member among those tied for the minimum and the
\* lowest-index member among those tied for the maximum, and no others; so of
\* candidates with identical vectors only the first has infinite crowding distance
\* and the others have 0.
C16_LowestIndexWinsBoundary ==
    OrderDone =>
        /\ \A f \in 1..Len(fronts) : \A i \in Range(fronts[f]) :
            FinalCrowd(i) = Inf <=>
                \E k \in 1..NumDims :
                    LET sorted_idx == SortedOnDim(fronts[f], k)
                    IN  i \in {LowestTied(fronts[f], sorted_idx[1], k),
                               LowestTied(fronts[f], sorted_idx[Len(sorted_idx)], k)}
        /\ (/\ Len(weighted_objs) >= 1
            /\ \A i \in 1..Len(weighted_objs) :
                    weighted_objs[i] = weighted_objs[1] /\ Feasible(i))
            => \A i \in 1..Len(weighted_objs) :
                    /\ FinalRank(i) = 1
                    /\ FinalCrowd(i) = (IF i = 1 THEN Inf ELSE Flt(0))

\* C17: the two branches of nsga_order return the same result: what nsga_order has
\* returned is what the branch with the third-party sort returns and what the
\* built-in branch returns.
C17_BranchesAgree ==
    OrderDone =>
        /\ order = nsga_order(weighted_objs, constraint_penalties, TRUE)
        /\ order = nsga_order(weighted_objs, constraint_penalties, FALSE)

\* apply_weights, called on raw vectors and weights, has returned
WeightsApplied == entry = "apply_weights" /\ pc # "mapped"

\* nsga_order on the weighted vectors has returned
WeightedOrderDone == entry = "apply_weights" /\ pc = "done"

\* the values of dimension k over the population of the call
ColumnOf(k) == {raw_objs[i][k] : i \in 1..Len(raw_objs)}

LeastOf(S) == CHOOSE x \in S : \A y \in S : ~Lt(y, x)
GreatestOf(S) == CHOOSE x \in S : \A y \in S : ~Lt(x, y)

\* the weight of dimension k: the one supplied, else 5.0, 2.0, 1.5, 1.0, 1.25, 0.75
SuppliedOr(name, default) == IF name \in DOMAIN weights THEN weights[name] ELSE default
WeightK(k) ==
    CASE k = 1 -> SuppliedOr("fitness", Flt(5))
      [] k = 2 -> SuppliedOr("jobs", Flt(2))
      [] k = 3 -> SuppliedOr("branding", Rat(3, 2))
      [] k = 4 -> SuppliedOr("mileage", Flt(1))
      [] k = 5 -> SuppliedOr("cleaning", Rat(5, 4))
      [] k = 6 -> SuppliedOr("stabling", Rat(3, 4))

\* C19: apply_weights returns, for candidate i and each of the 6 dimensions k,
\* weight_k * (v - min_k) / (max_k - min_k), min_k and max_k over the population of
\* the call; the value lies in [0, weight_k]; it is 0.0 when max_k = min_k; a weight
\* that is not supplied takes its default; the population order is kept.
C19_WeightedMinMax ==
    WeightsApplied =>
        /\ Len(weighted_objs) = Len(raw_objs)
        /\ \A i \in 1..Len(raw_objs) :
            /\ Len(weighted_objs[i]) = 6
            /\ \A k \in 1..6 :
                LET min_k == LeastOf(ColumnOf(k))
                    max_k == GreatestOf(ColumnOf(k))
                    v == raw_objs[i][k]
                    out == weighted_objs[i][k]
                IN  /\ max_k = min_k => out = Flt(0)
                    /\ max_k # min_k =>
                            out = Mul(WeightK(k), Div(Sub(v, min_k), Sub(max_k, min_k)))
                    /\ Le(Flt(0), out) /\ Le(out, WeightK(k))

\* a call with a column of one value that is not 0.0, a column of three values, a
\* weight supplied and a weight left to its default, and a value strictly inside
C19_Witness ==
    /\ WeightsApplied
    /\ Len(raw_objs) = 3
    /\ ColumnOf(3) = {Half}
    /\ ColumnOf(4) = MileageDevs
    /\ "mileage" \in DOMAIN weights /\ "branding" \notin DOMAIN weights
    /\ \E i \in 1..3 :
            /\ Lt(Flt(0), weighted_objs[i][4])
            /\ Lt(weighted_objs[i][4], weights["mileage"])

\* C20: for any raw vectors and penalties and any two configurations of strictly
\* positive weights, nsga_order of apply_weights returns the same candidates in the
\* same order with the same ranks and the same crowding distances.
C20_WeightsDoNotRank ==
    (WeightedOrderDone /\ weights \in PositiveWeightConfigs) =>
        /\ \E have_pymoo \in BOOLEAN :
                order = nsga_order(apply_weights(raw_objs, weights), penalties, have_pymoo)
        /\ \A have_pymoo \in BOOLEAN :
                LET mine == nsga_order(apply_weights(raw_objs, weights), penalties, have_pymoo)
                IN  \A other \in PositiveWeightConfigs :
                        nsga_order(apply_weights(raw_objs, other), penalties, have_pymoo) = mine

\* a call with weights of its own, where the weighted vectors differ from those of
\* the defaults and a candidate of a front of three has a finite crowding distance
\* that is not 0
C20_Witness ==
    /\ WeightedOrderDone
    /\ weights \in PositiveWeightConfigs /\ weights # <<>>
    /\ weighted_objs # apply_weights(raw_objs, <<>>)
    /\ \E f \in 1..Len(fronts) :
            /\ Len(fronts[f]) = 3
            /\ \E i \in Range(fronts[f]) :
                    ~IsInf(FinalCrowd(i)) /\ FinalCrowd(i) # Flt(0)

\* a non-dominated sort, followed round by round, has done its first loop nest
SortCounted ==
    entry \in {"_non_dominated_sort", "non_dominated_sort"} /\ pc \in {"peel", "done"}

\* a non-dominated sort, followed round by round, has returned
SortReturned ==
    entry \in {"_non_dominated_sort", "non_dominated_sort"} /\ pc = "done"

\* the vectors of the population the sort is given
SortedPop ==
    IF entry = "_non_dominated_sort" THEN weighted_objs
    ELSE [i \in 1..Len(computed) |-> computed[i].weighted_objectives]

\* the places (f, j) of the returned fronts that hold index i
PlacesOf(i) ==
    {<<f, j>> \in (1..Len(fronts)) \X (1..Len(SortedPop)) :
        j <= Len(fronts[f]) /\ fronts[f][j] = i}

\* C21: for a non-empty population of n vectors the peeling loop ends after at most
\* n rounds, no domination count ever becomes negative (a count only goes down, so
\* one that is negative within a round is negative at its end), and the returned
\* fronts partition the indices: none empty, every index in exactly one place.
C21_PeelingPartitions ==
    (SortCounted /\ SortedPop # <<>>) =>
        /\ nds.rounds <= Len(SortedPop)
        /\ \A i \in 1..Len(SortedPop) : nds.n_dom[i] >= 0
        /\ pc = "done" =>
            /\ \A f \in 1..Len(fronts) :
                    fronts[f] # <<>> /\ Range(fronts[f]) \subseteq 1..Len(SortedPop)
            /\ \A i \in 1..Len(SortedPop) : Cardinality(PlacesOf(i)) = 1

\* a sort of the command line of three candidates that took three rounds: one
\* candidate has two that dominate it, its count went from 2 to 0
C21_Witness ==
    /\ SortReturned
    /\ entry = "non_dominated_sort"
    /\ Len(SortedPop) = 3
    /\ nds.rounds = 3
    /\ \E i \in 1..3 : nds_n_dom(computed)[i] = 2 /\ nds.n_dom[i] = 0

\* the number of the front that holds index i in the fronts frs
FrontOf(frs, i) == CHOOSE f \in 1..Len(frs) : i \in Range(frs[f])

\* 1 + the length of the longest chain of candidates of pop, each dominating the
\* next, that ends by dominating candidate i
RECURSIVE ChainDepth(_, _)
ChainDepth(pop, i) ==
    LET above == {j \in 1..Len(pop) : ParetoDominates(pop[j], pop[i])}
        depths == {ChainDepth(pop, j) : j \in above}
    IN  IF above = {} THEN 1
        ELSE 1 + CHOOSE d \in depths : \A e \in depths : e <= d

\* the bijections of 1..n
Reorderings(n) ==
    {p \in [1..n -> 1..n] : \A a, b \in 1..n : p[a] = p[b] => a = b}

\* the fronts of the sort of this run for the population pop
SortFronts(pop) ==
    IF entry = "_non_dominated_sort" THEN _non_dominated_sort(pop)
    ELSE non_dominated_sort([i \in 1..Len(pop) |-> Computed(i, pop[i])]).fronts

\* C22: the front number the sort gives a candidate is 1 + the length of the
\* longest chain of candidates, each dominating the next, that ends by dominating it
\* (the rank the command line sets is that number too); hence the number does not
\* depend on the order in which the population is given.
C22_FrontIsChainDepth ==
    SortReturned =>
        /\ \A f \in 1..Len(fronts) : \A i \in Range(fronts[f]) :
                /\ f = ChainDepth(SortedPop, i)
                /\ entry = "non_dominated_sort" => computed[i].rank = f
        /\ \A p \in Reorderings(Len(SortedPop)) :
                LET given == [k \in 1..Len(SortedPop) |-> SortedPop[p[k]]]
                    frs == SortFronts(given)
                IN  \A k \in 1..Len(SortedPop) :
                        \E f \in 1..Len(frs) :
                            /\ k \in Range(frs[f])
                            /\ p[k] \in Range(fronts[f])

\* a sort of the service where the first candidate given is in the third front and
\* is dominated both by a candidate of the first and by one of the second front
C22_Witness ==
    /\ SortReturned
    /\ entry = "_non_dominated_sort"
    /\ Len(SortedPop) = 3
    /\ FrontOf(fronts, 1) = 3
    /\ \E a, b \in 2..3 :
            /\ FrontOf(fronts, a) = 1 /\ FrontOf(fronts, b) = 2
            /\ ParetoDominates(SortedPop[a], SortedPop[1])
            /\ ParetoDominates(SortedPop[b], SortedPop[1])

====
